---- MODULE Spec2Model ----
(***************************************************************************)
(* Model of convert_chapters.py: parse_copy_data (PostgreSQL COPY export   *)
(* -> parsed rows), convert_to_mongodb_format (grouping of translations,   *)
(* clean_text, assembly of multilingual chapters, sort) and of the main    *)
(* block that runs the one after the other; and of the routes of           *)
(* server.py that issue and verify OTPs, seed the database (init-data) and *)
(* create and read quotes.                                                 *)
(*                                                                         *)
(* A text is a sequence of symbols.  A symbol is one character ("\\", "n", *)
(* " ", a digit, ...) or an opaque word that holds no whitespace, no       *)
(* backslash and no digit and does not start with "n" ("english", "temple",*)
(* the COPY markers).  The file content is a sequence of lines, each a     *)
(* text without newline.                                                   *)
(***************************************************************************)
EXTENDS Integers, Sequences, FiniteSets, TLC

BS  == "\\"
NL  == "\n"
TAB == "\t"
SP  == " "
CR  == "\r"

\* str.strip() with no argument strips whitespace
Whitespace == {SP, TAB, NL, CR}

Digits == {"0", "1", "2", "3", "4", "5", "6", "7", "8", "9"}

DigitVal(d) ==
    CASE d = "0" -> 0 [] d = "1" -> 1 [] d = "2" -> 2 [] d = "3" -> 3
      [] d = "4" -> 4 [] d = "5" -> 5 [] d = "6" -> 6 [] d = "7" -> 7
      [] d = "8" -> 8 [] d = "9" -> 9

Min(S) == CHOOSE x \in S : \A y \in S : x <= y
Max(S) == CHOOSE x \in S : \A y \in S : x >= y

SeqsUpTo(S, n) == UNION {[1..k -> S] : k \in 0..n}

\* the sequences of at most n elements of S without repetition
DistinctSeqsUpTo(S, n) ==
    {s \in SeqsUpTo(S, n) : \A a, b \in 1..Len(s) : a # b => s[a] # s[b]}

(***************************************************************************)
(* String primitives of Python, on texts.                                  *)
(***************************************************************************)

\* s.strip(): drop leading and trailing whitespace
Strip(s) ==
    LET keep == {k \in 1..Len(s) : s[k] \notin Whitespace}
    IN  IF keep = {} THEN <<>> ELSE SubSeq(s, Min(keep), Max(keep))

\* s.split(sep) for a one-character sep: always at least one piece
RECURSIVE Split(_, _)
Split(s, sep) ==
    LET hits == {k \in 1..Len(s) : s[k] = sep}
    IN  IF hits = {} THEN <<s>>
        ELSE <<SubSeq(s, 1, Min(hits) - 1)>>
             \o Split(SubSeq(s, Min(hits) + 1, Len(s)), sep)

\* sep.join(pieces)
RECURSIVE Join(_, _)
Join(pieces, sep) ==
    IF pieces = <<>> THEN <<>>
    ELSE IF Len(pieces) = 1 THEN pieces[1]
    ELSE pieces[1] \o <<sep>> \o Join(Tail(pieces), sep)

\* int(s) succeeds: optional surrounding whitespace, optional sign, digits
IsInt(s) ==
    LET t == Strip(s)
        u == IF t # <<>> /\ t[1] \in {"-", "+"} THEN Tail(t) ELSE t
    IN  /\ u # <<>>
        /\ \A k \in 1..Len(u) : u[k] \in Digits

RECURSIVE DigitsVal(_)
DigitsVal(u) ==
    IF u = <<>> THEN 0
    ELSE 10 * DigitsVal(SubSeq(u, 1, Len(u) - 1)) + DigitVal(u[Len(u)])

\* int(s), where it succeeds
IntVal(s) ==
    LET t == Strip(s)
    IN  IF t[1] = "-" THEN 0 - DigitsVal(Tail(t))
        ELSE IF t[1] = "+" THEN DigitsVal(Tail(t))
        ELSE DigitsVal(t)

(***************************************************************************)
(* clean_text, step by step.                                               *)
(***************************************************************************)

\* text.replace('\\n', '\n'): left to right, non-overlapping
RECURSIVE ReplaceEscapedNewlines(_)
ReplaceEscapedNewlines(s) ==
    IF s = <<>> THEN <<>>
    ELSE IF Len(s) >= 2 /\ s[1] = BS /\ s[2] = "n"
         THEN <<NL>> \o ReplaceEscapedNewlines(SubSeq(s, 3, Len(s)))
    ELSE <<s[1]>> \o ReplaceEscapedNewlines(Tail(s))

\* length of the run of symbol c that starts s
RECURSIVE RunLen(_, _)
RunLen(s, c) ==
    IF s # <<>> /\ s[1] = c THEN 1 + RunLen(Tail(s), c) ELSE 0

\* a collapse of runs of three or more newlines to one newline
RECURSIVE CollapseNewlineRunsToOne(_)
CollapseNewlineRunsToOne(s) ==
    IF s = <<>> THEN <<>>
    ELSE IF s[1] = NL
         THEN LET r == RunLen(s, NL)
              IN  (IF r >= 3 THEN <<NL>> ELSE SubSeq(s, 1, r))
                  \o CollapseNewlineRunsToOne(SubSeq(s, r + 1, Len(s)))
    ELSE <<s[1]>> \o CollapseNewlineRunsToOne(Tail(s))

\* re.sub(r'\n{3,}', '\n\n', text)
RECURSIVE CollapseNewlineRuns(_)
CollapseNewlineRuns(s) ==
    IF s = <<>> THEN <<>>
    ELSE IF s[1] = NL
         THEN LET r == RunLen(s, NL)
              IN  (IF r >= 3 THEN <<NL, NL>> ELSE SubSeq(s, 1, r))
                  \o CollapseNewlineRuns(SubSeq(s, r + 1, Len(s)))
    ELSE <<s[1]>> \o CollapseNewlineRuns(Tail(s))

\* re.sub(r'(?<!\n)\n(?!\n)', ' ', text): the lookarounds read the input text
SingleNewlinesToSpaces(s) ==
    [k \in 1..Len(s) |->
        IF /\ s[k] = NL
           /\ (k = 1 \/ s[k - 1] # NL)
           /\ (k = Len(s) \/ s[k + 1] # NL)
        THEN SP ELSE s[k]]

\* re.sub(r' +', ' ', text)
RECURSIVE CollapseSpaces(_)
CollapseSpaces(s) ==
    IF s = <<>> THEN <<>>
    ELSE IF s[1] = SP
         THEN <<SP>> \o CollapseSpaces(SubSeq(s, RunLen(s, SP) + 1, Len(s)))
    ELSE <<s[1]>> \o CollapseSpaces(Tail(s))

\* clean_text with the spaces collapsed before the single newlines are replaced
clean_text_spaces_first(text) ==
    IF text = <<>> THEN text
    ELSE Strip(SingleNewlinesToSpaces(CollapseSpaces(
             CollapseNewlineRuns(ReplaceEscapedNewlines(text)))))

\* clean_text without the collapse of runs of newlines
clean_text_keep_runs(text) ==
    IF text = <<>> THEN text
    ELSE Strip(CollapseSpaces(SingleNewlinesToSpaces(
             ReplaceEscapedNewlines(text))))

\* clean_text with the single newlines replaced before the runs of newlines
\* are collapsed
clean_text_single_first(text) ==
    IF text = <<>> THEN text
    ELSE Strip(CollapseSpaces(CollapseNewlineRuns(SingleNewlinesToSpaces(
             ReplaceEscapedNewlines(text)))))

clean_text(text) ==
    IF text = <<>> THEN text
    ELSE Strip(CollapseSpaces(SingleNewlinesToSpaces(
             CollapseNewlineRuns(ReplaceEscapedNewlines(text)))))

(***************************************************************************)
(* parse_copy_data: the two regular-expression searches.                   *)
(***************************************************************************)

ChaptersMarker     == <<"COPY public.chapters", SP, "FROM stdin;">>
TranslationsMarker == <<"COPY public.chapter_translations", SP, "FROM stdin;">>
EndOfData          == <<BS, ".">>

NoMatch == [matched |-> FALSE, group1 |-> <<>>]

\* a line on which the regex tail  \n\\\.  can match: it starts with "\."
StartsWithEndOfData(line) ==
    Len(line) >= 2 /\ line[1] = BS /\ line[2] = "."

\* a search that reports an empty block where it finds no marker
SearchCopyEmptyIfMissing(text, marker) ==
    LET starts == {m \in 1..Len(text) : text[m] = marker}
    IN  IF starts = {} THEN [matched |-> TRUE, group1 |-> <<>>]
        ELSE LET m    == Min(starts)
                 ends == {k \in (m + 2)..Len(text) : StartsWithEndOfData(text[k])}
             IN  IF ends = {} THEN NoMatch
                 ELSE [matched |-> TRUE,
                       group1  |-> Join(SubSeq(text, m + 1, Min(ends) - 1), NL)]

\* re.search(r'COPY public\.<table>.*?FROM stdin;\n(.*?)\n\\\.', content,
\* re.DOTALL): group 1 starts after the marker line and is the shortest text
\* (at least one line, since only its closing newline can precede "\.")
\* that is followed by a line starting with "\."
SearchCopy(text, marker) ==
    LET starts == {m \in 1..Len(text) : text[m] = marker}
    IN  IF starts = {} THEN NoMatch
        ELSE LET m    == Min(starts)
                 ends == {k \in (m + 2)..Len(text) : StartsWithEndOfData(text[k])}
             IN  IF ends = {} THEN NoMatch
                 ELSE [matched |-> TRUE,
                       group1  |-> Join(SubSeq(text, m + 1, Min(ends) - 1), NL)]

\* match.group(1).strip().split('\n')
BlockLines(match) == Split(Strip(match.group1), NL)

(***************************************************************************)
(* parse_copy_data: one row of each row set.                               *)
(***************************************************************************)

\* body of the chapters loop for one line
ChapterLineResult(line) ==
    IF Strip(line) = <<>> THEN [kind |-> "skip"]
    ELSE LET parts == Split(line, TAB)
         IN  IF Len(parts) >= 4
             THEN IF IsInt(parts[1]) /\ IsInt(parts[2])
                  THEN [kind |-> "append",
                        row  |-> [id               |-> IntVal(parts[1]),
                                  chapter_number   |-> IntVal(parts[2]),
                                  last_updated     |-> parts[3],
                                  default_language |-> parts[4]]]
                  ELSE [kind |-> "raise"]
             ELSE [kind |-> "skip"]

NullSentinel == <<BS, "N">>

\* the fallback without the test for the null sentinel
ParseSummaryEmptyOnly(parts) ==
    IF parts[6] # <<>> THEN parts[6] ELSE parts[4]

\* parts[5] if parts[5] and parts[5] != '\\N' else parts[3]
ParseSummary(parts) ==
    IF parts[6] # <<>> /\ parts[6] # NullSentinel THEN parts[6] ELSE parts[4]

\* the test for the fields off by one
EnoughTranslationFieldsStrict(parts) == Len(parts) > 7

\* len(parts) >= 7
EnoughTranslationFields(parts) == Len(parts) >= 7

\* body of the translations loop for one line: a row is appended when it has
\* the fields and both int() calls succeed; ValueError and IndexError are
\* caught and reported
TranslationLineResult(line) ==
    IF Strip(line) = <<>> THEN [kind |-> "skip"]
    ELSE LET parts == Split(line, TAB)
         IN  IF EnoughTranslationFields(parts)
             THEN IF Len(parts) >= 7 /\ IsInt(parts[1]) /\ IsInt(parts[2])
                  THEN [kind |-> "append",
                        row  |-> [id           |-> IntVal(parts[1]),
                                  chapter_id   |-> IntVal(parts[2]),
                                  language     |-> parts[3],
                                  title        |-> parts[4],
                                  content      |-> parts[5],
                                  summary      |-> ParseSummary(parts),
                                  last_updated |-> parts[7],
                                  theme        |-> IF Len(parts) > 7
                                                   THEN parts[8]
                                                   ELSE <<"temple">>]]
                  ELSE [kind |-> "warn"]
             ELSE [kind |-> "skip"]

(***************************************************************************)
(* convert_to_mongodb_format.                                              *)
(***************************************************************************)

English == <<"english">>

EmptyMap == [x \in {} |-> x]

\* grouping that keeps the first row of a key (setdefault)
GroupInsertFirstWins(group, trans) ==
    LET cid   == trans.chapter_id
        inner == IF cid \in DOMAIN group THEN group[cid] ELSE EmptyMap
        added == [l \in (DOMAIN inner) \cup {trans.language} |->
                     IF l \in DOMAIN inner THEN inner[l] ELSE trans]
    IN  [c \in (DOMAIN group) \cup {cid} |->
            IF c = cid THEN added ELSE group[c]]

\* translations_by_chapter[chapter_id][trans['language']] = trans
GroupInsert(group, trans) ==
    LET cid   == trans.chapter_id
        inner == IF cid \in DOMAIN group THEN group[cid] ELSE EmptyMap
        added == [l \in (DOMAIN inner) \cup {trans.language} |->
                     IF l = trans.language THEN trans ELSE inner[l]]
    IN  [c \in (DOMAIN group) \cup {cid} |->
            IF c = cid THEN added ELSE group[c]]

\* a mapping chain that shortens one code
LangKeyShortHindi(lang) ==
    IF lang = <<"hindi">> THEN <<"hi">> ELSE lang

\* the language-code mapping chain
LangKey(lang) ==
    IF lang = <<"english">> THEN <<"english">>
    ELSE IF lang = <<"hindi">> THEN <<"hindi">>
    ELSE IF lang = <<"telugu">> THEN <<"telugu">>
    ELSE IF lang = <<"marathi">> THEN <<"marathi">>
    ELSE lang

\* translations_by_chapter.get(chapter_id, {})
ChapterTranslations(group, chapter) ==
    IF chapter.id \in DOMAIN group THEN group[chapter.id] ELSE EmptyMap

\* the keys the loop over chapter_translations.items() writes
LangKeys(trans_by_lang) == {LangKey(l) : l \in DOMAIN trans_by_lang}

\* the translation whose value is left under key k
TransAt(trans_by_lang, k) ==
    trans_by_lang[CHOOSE l \in DOMAIN trans_by_lang : LangKey(l) = k]

\* titles[lang_key] = clean_text(trans['title'])
Titles(trans_by_lang) ==
    [k \in LangKeys(trans_by_lang) |->
        clean_text(TransAt(trans_by_lang, k).title)]

\* contents[lang_key] = clean_text(trans['content'])
Contents(trans_by_lang) ==
    [k \in LangKeys(trans_by_lang) |->
        clean_text(TransAt(trans_by_lang, k).content)]

\* summaries[lang_key] =
\*     clean_text(trans['summary'] if trans['summary'] else trans['title'])
Summaries(trans_by_lang) ==
    [k \in LangKeys(trans_by_lang) |->
        LET trans == TransAt(trans_by_lang, k)
        IN  clean_text(IF trans.summary # <<>> THEN trans.summary
                       ELSE trans.title)]

\* a gate that lets any translated chapter through
IncludeChapterAnyLanguage(titles) == DOMAIN titles # {}

\* only chapters that have at least English content
IncludeChapter(titles) == English \in DOMAIN titles

\* the number taken from the row's id
ChapterNumberFromId(chapter) == chapter.id

\* 'number': chapter['chapter_number']
ChapterNumber(chapter) == chapter.chapter_number

\* the record the chapters loop builds for one chapter
MongoChapter(chapter, trans_by_lang, now) ==
    [number     |-> ChapterNumber(chapter),
     title      |-> Titles(trans_by_lang),
     content    |-> Contents(trans_by_lang),
     summary    |-> Summaries(trans_by_lang),
     created_at |-> now,
     updated_at |-> now]

\* an insertion that puts x before the elements with its key
InsertBeforeEqual(sorted, x) ==
    LET before == {k \in 1..Len(sorted) : sorted[k].number < x.number}
        n      == IF before = {} THEN 0 ELSE Max(before)
    IN  SubSeq(sorted, 1, n) \o <<x>> \o SubSeq(sorted, n + 1, Len(sorted))

\* where list.sort puts x in an already sorted list: after every element
\* whose key is not greater (the sort is stable)
InsertByNumber(sorted, x) ==
    LET before == {k \in 1..Len(sorted) : sorted[k].number <= x.number}
        n      == IF before = {} THEN 0 ELSE Max(before)
    IN  SubSeq(sorted, 1, n) \o <<x>> \o SubSeq(sorted, n + 1, Len(sorted))

\* mongodb_chapters.sort(key=lambda x: x['number'])
RECURSIVE SortByNumber(_)
SortByNumber(chapters) ==
    IF chapters = <<>> THEN <<>>
    ELSE InsertByNumber(SortByNumber(SubSeq(chapters, 1, Len(chapters) - 1)),
                        chapters[Len(chapters)])

(***************************************************************************)
(* The exports the model runs on.                                          *)
(***************************************************************************)

\* rows of well-formed exports
MaxChapters == 3
MaxTranslations == 3
\* rows of exports with malformed rows
MaxChapterLines == 2
MaxTranslationLines == 3
\* rows of exports with a row set missing or in the other order
MaxLayoutRows == 1

Row(fields) == Join(fields, TAB)

\* chapters rows: id, chapter_number, last_updated, default_language; the id
\* is the table's key, so an export holds no row twice
GoodChapterRows ==
    { Row(<< <<"1">>, <<"5">>, <<"d">>, English >>),
      Row(<< <<"2">>, <<"2">>, <<"d">>, English >>),
      Row(<< <<"3">>, <<"5">>, <<"d">>, English >>),
      Row(<< <<"4">>, <<"1", "0">>, <<"d">>, <<"hindi">> >>) }

AnyChapterRows ==
    { Row(<< <<"1">>, <<"5">>, <<"d">>, English >>),
      Row(<< <<"x">>, <<"2">>, <<"d">>, English >>),
      Row(<< <<"2">>, <<"2">>, <<"d">> >>) }

\* chapter_translations rows: id, chapter_id, language, title, content,
\* summary, last_updated[, theme]
GoodTranslationRows ==
    { Row(<< <<"1">>, <<"1">>, English, <<"a", BS, "n", "b">>,
             <<"a", BS, "n", BS, "n", BS, "n", "b">>, <<"s", SP, SP, "s">>,
             <<"d">> >>),
      Row(<< <<"2">>, <<"1">>, <<"hindi">>, <<"h", SP>>, <<"c">>, NullSentinel,
             <<"d">>, <<"t">> >>),
      Row(<< <<"3">>, <<"3">>, English, <<"b">>, <<"c">>, <<>>, <<"d">> >>),
      Row(<< <<"5">>, <<"2">>, English, <<"e">>, <<"c">>, <<"s">>, <<"d">> >>) }

AnyTranslationRows ==
    { Row(<< <<"1">>, <<"1">>, English, <<"a">>, <<"c">>, <<"s">>, <<"d">> >>),
      Row(<< <<"4">>, <<"1">>, English, <<"a", "a">>, <<"c">>, <<"s">>, <<"d">> >>),
      Row(<< <<"9">>, <<"x">>, <<"y">> >>),
      Row(<< <<"x">>, <<"1">>, <<"hindi">>, <<"h">>, <<"c">>, <<"s">>, <<"d">> >>),
      Row(<< <<"2">>, <<"1">>, <<"hindi">>, <<"h">>, <<"c">>, NullSentinel,
             <<"d">>, <<>> >>) }

ChaptersSection(rows)     == <<ChaptersMarker>> \o rows \o <<EndOfData, <<>> >>
TranslationsSection(rows) == <<TranslationsMarker>> \o rows \o <<EndOfData, <<>> >>

Header == << <<"-", "-">> >>

\* pg_dump output with both row sets
Dump(crows, trows) ==
    Header \o ChaptersSection(crows) \o TranslationsSection(trows)

\* the row sets in the other order, or one or both of them missing
OtherLayouts(crows, trows) ==
    { Header \o TranslationsSection(trows) \o ChaptersSection(crows),
      Header \o ChaptersSection(crows),
      Header \o TranslationsSection(trows),
      Header }

Exports ==
    { Dump(crows, trows) :
          crows \in DistinctSeqsUpTo(GoodChapterRows, MaxChapters),
          trows \in DistinctSeqsUpTo(GoodTranslationRows, MaxTranslations) }
    \cup
    { Dump(crows, trows) :
          crows \in DistinctSeqsUpTo(AnyChapterRows, MaxChapterLines),
          trows \in DistinctSeqsUpTo(AnyTranslationRows, MaxTranslationLines) }

LayoutExports ==
    UNION { OtherLayouts(crows, trows) :
              crows \in DistinctSeqsUpTo(AnyChapterRows, MaxLayoutRows),
              trows \in DistinctSeqsUpTo(AnyTranslationRows, MaxLayoutRows) }

(***************************************************************************)
(* The run: parse_copy_data, then convert_to_mongodb_format.               *)
(***************************************************************************)

VARIABLES
    file_content,             \* the lines of the decoded backup file
    pc,                       \* where the run is
    error,                    \* the exception that ended the run, or "none"
    chapter_lines,            \* chapters_match.group(1).strip().split('\n')
    translation_lines,        \* translations_match.group(1).strip().split('\n')
    i,                        \* index (from 1) of the current loop
    chapters_data,
    translations_data,
    warnings,                 \* the line numbers the warnings name
    translations_by_chapter,
    mongodb_chapters,
    clock,                    \* what datetime.utcnow() returns next
    raw,                      \* a text handed to clean_text on its own
    text,                     \* what clean_text made of it so far
    calls,                    \* how often clean_text was applied to it
    db_otps,                  \* the documents of db.otps
    db_users,                 \* the documents of db.users
    db_chapters,              \* the documents of db.chapters
    db_spiritual_quotes,      \* the documents of db.spiritual_quotes
    next_id,                  \* the _id the next inserted document gets
    reqs                      \* the requests of the service, in arrival order

runVars == <<file_content, pc, error, chapter_lines, translation_lines, i,
             chapters_data, translations_data, warnings,
             translations_by_chapter, mongodb_chapters, clock>>

textVars == <<raw, text, calls>>

storeVars == <<db_otps, db_users, db_chapters, db_spiritual_quotes, next_id>>

serverVars == <<storeVars, reqs>>

vars == <<runVars, textVars, serverVars>>

MaxRequests == 3

Requests == 1..MaxRequests

\* a request that has not arrived yet
Idle ==
    [kind |-> "none", pc |-> "idle", email |-> "", otp |-> "", force |-> FALSE,
     otp_doc |-> 0, inserted_id |-> 0, existing_chapters |-> 0,
     response |-> "none", after |-> {}]

\* the service has started on an empty database and no request has arrived
ServiceStart ==
    /\ db_otps = {}
    /\ db_users = {}
    /\ db_chapters = {}
    /\ db_spiritual_quotes = {}
    /\ next_id = 1
    /\ reqs = [r \in Requests |-> Idle]

\* the state in which the run starts on an export: the file is read and
\* decoded (lines 13-26; latin-1 decodes any bytes, so content is never None)
Start(export) ==
    /\ file_content = export
    /\ pc = "search"
    /\ error = "none"
    /\ chapter_lines = <<>>
    /\ translation_lines = <<>>
    /\ i = 1
    /\ chapters_data = <<>>
    /\ translations_data = <<>>
    /\ warnings = <<>>
    /\ translations_by_chapter = EmptyMap
    /\ mongodb_chapters = <<>>
    /\ clock = 0
    /\ raw = <<>>
    /\ text = <<>>
    /\ calls = 0
    /\ ServiceStart

Init == \E export \in Exports : Start(export)

InitLayouts == \E export \in LayoutExports : Start(export)

\* the two searches; ValueError when either finds nothing
SearchSections ==
    /\ pc = "search"
    /\ LET chapters_match     == SearchCopy(file_content, ChaptersMarker)
           translations_match == SearchCopy(file_content, TranslationsMarker)
       IN  IF ~chapters_match.matched \/ ~translations_match.matched
           THEN /\ pc' = "raised"
                /\ error' = "Could not find chapters or translations data"
                /\ UNCHANGED <<chapter_lines, translation_lines>>
           ELSE /\ pc' = "parse_chapters"
                /\ error' = error
                /\ chapter_lines' = BlockLines(chapters_match)
                /\ translation_lines' = BlockLines(translations_match)
    /\ i' = 1
    /\ UNCHANGED <<file_content, chapters_data, translations_data, warnings,
                   translations_by_chapter, mongodb_chapters, clock>>
    /\ UNCHANGED textVars
    /\ UNCHANGED serverVars

\* one pass of the chapters loop; int() raising ends the run
ParseChapterLine ==
    /\ pc = "parse_chapters"
    /\ LET r == ChapterLineResult(chapter_lines[i])
       IN  IF r.kind = "raise"
           THEN /\ pc' = "raised"
                /\ error' = "invalid literal for int()"
                /\ UNCHANGED <<i, chapters_data>>
           ELSE /\ chapters_data' = IF r.kind = "append"
                                    THEN Append(chapters_data, r.row)
                                    ELSE chapters_data
                /\ error' = error
                /\ IF i = Len(chapter_lines)
                   THEN pc' = "parse_translations" /\ i' = 1
                   ELSE pc' = pc /\ i' = i + 1
    /\ UNCHANGED <<file_content, chapter_lines, translation_lines,
                   translations_data, warnings, translations_by_chapter,
                   mongodb_chapters, clock>>
    /\ UNCHANGED textVars
    /\ UNCHANGED serverVars

\* one pass of the translations loop; line_num + 1 is i
ParseTranslationLine ==
    /\ pc = "parse_translations"
    /\ LET r == TranslationLineResult(translation_lines[i])
       IN  /\ translations_data' = IF r.kind = "append"
                                   THEN Append(translations_data, r.row)
                                   ELSE translations_data
           /\ warnings' = IF r.kind = "warn" THEN Append(warnings, i)
                          ELSE warnings
    /\ IF i = Len(translation_lines)
       THEN pc' = "group" /\ i' = 1
       ELSE pc' = pc /\ i' = i + 1
    /\ UNCHANGED <<file_content, error, chapter_lines, translation_lines,
                   chapters_data, translations_by_chapter, mongodb_chapters,
                   clock>>
    /\ UNCHANGED textVars
    /\ UNCHANGED serverVars

\* one pass of the grouping loop, or its end
GroupTranslation ==
    /\ pc = "group"
    /\ IF i <= Len(translations_data)
       THEN /\ translations_by_chapter' =
                   GroupInsert(translations_by_chapter, translations_data[i])
            /\ i' = i + 1
            /\ pc' = pc
       ELSE /\ pc' = "assemble"
            /\ i' = 1
            /\ UNCHANGED translations_by_chapter
    /\ UNCHANGED <<file_content, error, chapter_lines, translation_lines,
                   chapters_data, translations_data, warnings,
                   mongodb_chapters, clock>>
    /\ UNCHANGED textVars
    /\ UNCHANGED serverVars

\* one pass of the chapters loop of the conversion, or its end; the two
\* datetime.utcnow() of one record read the clock once, and the clock moves on
\* between records
AssembleChapter ==
    /\ pc = "assemble"
    /\ IF i <= Len(chapters_data)
       THEN LET chapter == chapters_data[i]
                doc     == MongoChapter(chapter,
                               ChapterTranslations(translations_by_chapter, chapter),
                               clock)
            IN  /\ IF IncludeChapter(doc.title)
                   THEN /\ mongodb_chapters' = Append(mongodb_chapters, doc)
                        /\ clock' = clock + 1
                   ELSE UNCHANGED <<mongodb_chapters, clock>>
                /\ i' = i + 1
                /\ pc' = pc
       ELSE /\ pc' = "sort"
            /\ UNCHANGED <<i, mongodb_chapters, clock>>
    /\ UNCHANGED <<file_content, error, chapter_lines, translation_lines,
                   chapters_data, translations_data, warnings,
                   translations_by_chapter>>
    /\ UNCHANGED textVars
    /\ UNCHANGED serverVars

\* the sort, and the return
SortChapters ==
    /\ pc = "sort"
    /\ mongodb_chapters' = SortByNumber(mongodb_chapters)
    /\ pc' = "done"
    /\ UNCHANGED <<file_content, error, chapter_lines, translation_lines, i,
                   chapters_data, translations_data, warnings,
                   translations_by_chapter, clock>>
    /\ UNCHANGED textVars
    /\ UNCHANGED serverVars

Next ==
    \/ SearchSections
    \/ ParseChapterLine
    \/ ParseTranslationLine
    \/ GroupTranslation
    \/ AssembleChapter
    \/ SortChapters

Spec == Init /\ [][Next]_vars

SpecLayouts == InitLayouts /\ [][Next]_vars

(***************************************************************************)
(* clean_text on its own, applied again to its own output.                 *)
(***************************************************************************)

MaxTextLen == 6
MaxCalls == 2

TextAlphabet == {BS, "n", NL, SP, "a"}

InitText ==
    /\ raw \in SeqsUpTo(TextAlphabet, MaxTextLen)
    /\ text = raw
    /\ calls = 0
    /\ file_content = <<>>
    /\ pc = "idle"
    /\ error = "none"
    /\ chapter_lines = <<>>
    /\ translation_lines = <<>>
    /\ i = 1
    /\ chapters_data = <<>>
    /\ translations_data = <<>>
    /\ warnings = <<>>
    /\ translations_by_chapter = EmptyMap
    /\ mongodb_chapters = <<>>
    /\ clock = 0
    /\ ServiceStart

CleanText ==
    /\ calls < MaxCalls
    /\ text' = clean_text(text)
    /\ calls' = calls + 1
    /\ UNCHANGED <<raw, runVars, serverVars>>

NextText == CleanText

SpecText == InitText /\ [][NextText]_vars

(***************************************************************************)
(* The service (server.py).  A handler runs without interruption between   *)
(* two awaits, so each action is one database operation together with the  *)
(* code that follows it up to the next await.                              *)
(***************************************************************************)

AdminEmail == "admin@saibaba.com"

Emails == {"devotee@example.com", AdminEmail}

\* values of generate_otp()
OtpCodes == {"123456", "654321"}

\* request r is the next to arrive
Arrives(r) ==
    /\ reqs[r].pc = "idle"
    /\ \A q \in 1..(r - 1) : reqs[q].pc # "idle"

\* request r as it arrives: kind and the requests that were answered before
Arrived(r, kind) ==
    [Idle EXCEPT !.kind = kind,
                 !.after = {q \in 1..(r - 1) : reqs[q].pc = "done"}]

At(r, kind, pc_) == reqs[r].kind = kind /\ reqs[r].pc = pc_

\* send_otp up to  await db.otps.delete_many({"email": email})
SendOtpDelete(r) ==
    /\ Arrives(r)
    /\ \E email \in Emails, otp \in OtpCodes :
          /\ db_otps' = {d \in db_otps : d.email # email}
          /\ reqs' = [reqs EXCEPT ![r] =
                         [Arrived(r, "send_otp") EXCEPT !.pc = "insert_otp",
                                                        !.email = email,
                                                        !.otp = otp]]
    /\ UNCHANGED <<db_users, db_chapters, db_spiritual_quotes, next_id>>
    /\ UNCHANGED <<runVars, textVars>>

\* await db.otps.insert_one({...}) and the response
SendOtpInsert(r) ==
    /\ At(r, "send_otp", "insert_otp")
    /\ db_otps' = db_otps \cup
                     {[_id |-> next_id, email |-> reqs[r].email,
                       otp |-> reqs[r].otp, used |-> FALSE, expired |-> FALSE]}
    /\ next_id' = next_id + 1
    /\ reqs' = [reqs EXCEPT ![r].pc = "done", ![r].response = "OTP sent"]
    /\ UNCHANGED <<db_users, db_chapters, db_spiritual_quotes>>
    /\ UNCHANGED <<runVars, textVars>>

\* the clock passes the expires_at of an OTP document
OtpExpires ==
    /\ \E d \in db_otps :
          /\ ~d.expired
          /\ db_otps' = (db_otps \ {d}) \cup {[d EXCEPT !.expired = TRUE]}
    /\ UNCHANGED <<db_users, db_chapters, db_spiritual_quotes, next_id, reqs>>
    /\ UNCHANGED <<runVars, textVars>>

\* the documents the filter of verify_otp's find_one matches
UsableOtps(email, otp) ==
    {d \in db_otps : d.email = email /\ d.otp = otp /\ ~d.used /\ ~d.expired}

\* verify_otp up to  await db.otps.find_one({...})  and the test of its result
VerifyOtpFind(r) ==
    /\ Arrives(r)
    /\ \E email \in Emails, otp \in OtpCodes :
          LET arrived == [Arrived(r, "verify_otp") EXCEPT !.email = email,
                                                          !.otp = otp]
          IN  IF UsableOtps(email, otp) = {}
              THEN reqs' = [reqs EXCEPT ![r] =
                               [arrived EXCEPT
                                   !.pc = "done",
                                   !.response = "Invalid or expired OTP"]]
              ELSE \E otp_doc \in UsableOtps(email, otp) :
                      reqs' = [reqs EXCEPT ![r] =
                                  [arrived EXCEPT !.pc = "mark_used",
                                                  !.otp_doc = otp_doc._id]]
    /\ UNCHANGED storeVars
    /\ UNCHANGED <<runVars, textVars>>

\* await db.otps.update_one({"_id": otp_doc["_id"]}, {"$set": {"used": True}})
VerifyOtpMarkUsed(r) ==
    /\ At(r, "verify_otp", "mark_used")
    /\ db_otps' = {IF d._id = reqs[r].otp_doc THEN [d EXCEPT !.used = TRUE] ELSE d :
                      d \in db_otps}
    /\ reqs' = [reqs EXCEPT ![r].pc = "find_user"]
    /\ UNCHANGED <<db_users, db_chapters, db_spiritual_quotes, next_id>>
    /\ UNCHANGED <<runVars, textVars>>

\* user = await db.users.find_one({"email": email}); a user that is found is
\* answered with an access token
VerifyOtpFindUser(r) ==
    /\ At(r, "verify_otp", "find_user")
    /\ IF \E user \in db_users : user.email = reqs[r].email
       THEN reqs' = [reqs EXCEPT ![r].pc = "done", ![r].response = "access_token"]
       ELSE reqs' = [reqs EXCEPT ![r].pc = "insert_user"]
    /\ UNCHANGED storeVars
    /\ UNCHANGED <<runVars, textVars>>

\* result = await db.users.insert_one(user_dict)
VerifyOtpInsertUser(r) ==
    /\ At(r, "verify_otp", "insert_user")
    /\ db_users' = db_users \cup
                      {[_id |-> next_id, email |-> reqs[r].email, role |-> "user"]}
    /\ next_id' = next_id + 1
    /\ reqs' = [reqs EXCEPT ![r].pc = "fetch_user", ![r].inserted_id = next_id]
    /\ UNCHANGED <<db_otps, db_chapters, db_spiritual_quotes>>
    /\ UNCHANGED <<runVars, textVars>>

\* user = await db.users.find_one({"_id": result.inserted_id}) and the
\* response with the access token
VerifyOtpFetchUser(r) ==
    /\ At(r, "verify_otp", "fetch_user")
    /\ reqs' = [reqs EXCEPT ![r].pc = "done", ![r].response = "access_token"]
    /\ UNCHANGED storeVars
    /\ UNCHANGED <<runVars, textVars>>

MaxRealChapters == 2

\* what convert_to_mongodb_format returns for the backup file: chapters
\* ascending by number
RealChapters == [k \in 1..MaxRealChapters |-> [number |-> k]]

\* generate_sample_quotes(): the English content of the quotes
SampleQuotes ==
    <<"Allah Malik", "Why fear when I am here?", "Love all, serve all",
      "He has no beginning, no end", "God is One">>

\* contents of the quotes an admin posts
PostedQuotes == {"Have faith and patience"}

\* the pc of initialize_sample_data once the admin user is ensured: the
\* early return, the deletes under force, or the conversion
AfterAdmin(req) ==
    IF req.existing_chapters > 0 /\ ~req.force
    THEN [req EXCEPT !.pc = "done", !.response = "Data already initialized"]
    ELSE IF req.force THEN [req EXCEPT !.pc = "delete_chapters"]
    ELSE [req EXCEPT !.pc = "convert"]

\* initialize_sample_data up to  await db.chapters.count_documents({})
InitDataCount(r) ==
    /\ Arrives(r)
    /\ \E force \in BOOLEAN :
          reqs' = [reqs EXCEPT ![r] =
                      [Arrived(r, "init_data") EXCEPT
                          !.pc = "find_admin",
                          !.force = force,
                          !.existing_chapters = Cardinality(db_chapters)]]
    /\ UNCHANGED storeVars
    /\ UNCHANGED <<runVars, textVars>>

\* await db.users.find_one({"email": "admin@saibaba.com", "role": "admin"})
InitDataFindAdmin(r) ==
    /\ At(r, "init_data", "find_admin")
    /\ IF \E user \in db_users : user.email = AdminEmail /\ user.role = "admin"
       THEN reqs' = [reqs EXCEPT ![r] = AfterAdmin(reqs[r])]
       ELSE reqs' = [reqs EXCEPT ![r].pc = "upsert_admin"]
    /\ UNCHANGED storeVars
    /\ UNCHANGED <<runVars, textVars>>

\* await db.users.update_one({"email": "admin@saibaba.com"}, {"$set": ...},
\* upsert=True): one matching document is updated, or one is inserted
InitDataUpsertAdmin(r) ==
    /\ At(r, "init_data", "upsert_admin")
    /\ LET found == {user \in db_users : user.email = AdminEmail}
       IN  IF found = {}
           THEN /\ db_users' = db_users \cup
                       {[_id |-> next_id, email |-> AdminEmail, role |-> "admin"]}
                /\ next_id' = next_id + 1
           ELSE /\ \E user \in found :
                      db_users' = (db_users \ {user}) \cup
                                     {[user EXCEPT !.role = "admin"]}
                /\ next_id' = next_id
    /\ reqs' = [reqs EXCEPT ![r] = AfterAdmin(reqs[r])]
    /\ UNCHANGED <<db_otps, db_chapters, db_spiritual_quotes>>
    /\ UNCHANGED <<runVars, textVars>>

\* await db.chapters.delete_many({})
InitDataDeleteChapters(r) ==
    /\ At(r, "init_data", "delete_chapters")
    /\ db_chapters' = {}
    /\ reqs' = [reqs EXCEPT ![r].pc = "delete_quotes"]
    /\ UNCHANGED <<db_otps, db_users, db_spiritual_quotes, next_id>>
    /\ UNCHANGED <<runVars, textVars>>

\* await db.spiritual_quotes.delete_many({})
InitDataDeleteQuotes(r) ==
    /\ At(r, "init_data", "delete_quotes")
    /\ db_spiritual_quotes' = {}
    /\ reqs' = [reqs EXCEPT ![r].pc = "convert"]
    /\ UNCHANGED <<db_otps, db_users, db_chapters, next_id>>
    /\ UNCHANGED <<runVars, textVars>>

\* the conversion script in a subprocess, then parse_copy_data and
\* convert_to_mongodb_format in the service: they fail or give real_chapters
InitDataConvert(r) ==
    /\ At(r, "init_data", "convert")
    /\ \E converted \in BOOLEAN :
          reqs' = IF converted
                  THEN [reqs EXCEPT ![r].pc = "insert_chapters"]
                  ELSE [reqs EXCEPT ![r].pc = "done",
                                    ![r].response = "Failed to convert chapter data"]
    /\ UNCHANGED storeVars
    /\ UNCHANGED <<runVars, textVars>>

\* the documents an insert_many stores of which the first n writes succeed
Inserted(docs, n) ==
    {[_id |-> next_id + k - 1, doc |-> docs[k]] : k \in 1..n}

\* await db.chapters.insert_many(real_chapters): the writes are made in
\* order, and the first that fails raises
InitDataInsertChapters(r) ==
    /\ At(r, "init_data", "insert_chapters")
    /\ \E n \in 0..Len(RealChapters) :
          /\ db_chapters' = db_chapters \cup
                {[_id |-> d._id, number |-> d.doc.number] :
                    d \in Inserted(RealChapters, n)}
          /\ next_id' = next_id + n
          /\ reqs' = IF n = Len(RealChapters)
                     THEN [reqs EXCEPT ![r].pc = "insert_quotes"]
                     ELSE [reqs EXCEPT ![r].pc = "done",
                                       ![r].response = "Internal Server Error"]
    /\ UNCHANGED <<db_otps, db_users, db_spiritual_quotes>>
    /\ UNCHANGED <<runVars, textVars>>

\* await db.spiritual_quotes.insert_many(real_quotes) and the response
InitDataInsertQuotes(r) ==
    /\ At(r, "init_data", "insert_quotes")
    /\ \E n \in 0..Len(SampleQuotes) :
          /\ db_spiritual_quotes' = db_spiritual_quotes \cup
                {[_id |-> d._id, content |-> d.doc, is_active |-> TRUE] :
                    d \in Inserted(SampleQuotes, n)}
          /\ next_id' = next_id + n
          /\ reqs' = IF n = Len(SampleQuotes)
                     THEN [reqs EXCEPT ![r].pc = "done",
                                       ![r].response = "Initialized"]
                     ELSE [reqs EXCEPT ![r].pc = "done",
                                       ![r].response = "Internal Server Error"]
    /\ UNCHANGED <<db_otps, db_users, db_chapters>>
    /\ UNCHANGED <<runVars, textVars>>

\* create_quote for an admin (get_admin_user found the admin user) up to
\* await db.spiritual_quotes.insert_one(quote_dict); QuoteCreate has no
\* is_active field
CreateQuoteInsert(r) ==
    /\ Arrives(r)
    /\ \E user \in db_users : user.role = "admin"
    /\ \E content \in PostedQuotes :
          db_spiritual_quotes' = db_spiritual_quotes \cup
              {[_id |-> next_id, content |-> content, is_active |-> FALSE]}
    /\ next_id' = next_id + 1
    /\ reqs' = [reqs EXCEPT ![r] =
                   [Arrived(r, "create_quote") EXCEPT !.pc = "fetch_quote",
                                                      !.inserted_id = next_id]]
    /\ UNCHANGED <<db_otps, db_users, db_chapters>>
    /\ UNCHANGED <<runVars, textVars>>

\* created_quote = await db.spiritual_quotes.find_one({"_id": ...}) and the
\* response; SpiritualQuote(**None) raises when the quote is gone
CreateQuoteFetch(r) ==
    /\ At(r, "create_quote", "fetch_quote")
    /\ reqs' = IF \E q \in db_spiritual_quotes : q._id = reqs[r].inserted_id
               THEN [reqs EXCEPT ![r].pc = "done", ![r].response = "quote"]
               ELSE [reqs EXCEPT ![r].pc = "done",
                                 ![r].response = "Internal Server Error"]
    /\ UNCHANGED storeVars
    /\ UNCHANGED <<runVars, textVars>>

\* get_random_quote up to
\* await db.spiritual_quotes.find({"is_active": True}).to_list(1000)
GetRandomQuote(r) ==
    /\ Arrives(r)
    /\ reqs' = [reqs EXCEPT ![r] =
                   IF \E q \in db_spiritual_quotes : q.is_active
                   THEN [Arrived(r, "get_random_quote") EXCEPT
                            !.pc = "done", !.response = "quote"]
                   ELSE [Arrived(r, "get_random_quote") EXCEPT
                            !.pc = "daily_quote"]]
    /\ UNCHANGED storeVars
    /\ UNCHANGED <<runVars, textVars>>

\* get_daily_quote, called by get_random_quote when it found no quote
GetDailyQuote(r) ==
    /\ At(r, "get_random_quote", "daily_quote")
    /\ reqs' = [reqs EXCEPT
                   ![r].pc = "done",
                   ![r].response = IF \E q \in db_spiritual_quotes : q.is_active
                                   THEN "quote" ELSE "default quote"]
    /\ UNCHANGED storeVars
    /\ UNCHANGED <<runVars, textVars>>

\* the service after its start; the conversion run of the offline tool is
\* not in progress
InitService ==
    /\ ServiceStart
    /\ file_content = <<>>
    /\ pc = "idle"
    /\ error = "none"
    /\ chapter_lines = <<>>
    /\ translation_lines = <<>>
    /\ i = 1
    /\ chapters_data = <<>>
    /\ translations_data = <<>>
    /\ warnings = <<>>
    /\ translations_by_chapter = EmptyMap
    /\ mongodb_chapters = <<>>
    /\ clock = 0
    /\ raw = <<>>
    /\ text = <<>>
    /\ calls = 0

InitData(r) ==
    \/ InitDataCount(r)
    \/ InitDataFindAdmin(r)
    \/ InitDataUpsertAdmin(r)
    \/ InitDataDeleteChapters(r)
    \/ InitDataDeleteQuotes(r)
    \/ InitDataConvert(r)
    \/ InitDataInsertChapters(r)
    \/ InitDataInsertQuotes(r)

\* the authentication routes and init-data
NextAuth ==
    \/ \E r \in Requests : SendOtpDelete(r)
    \/ \E r \in Requests : SendOtpInsert(r)
    \/ OtpExpires
    \/ \E r \in Requests : VerifyOtpFind(r)
    \/ \E r \in Requests : VerifyOtpMarkUsed(r)
    \/ \E r \in Requests : VerifyOtpFindUser(r)
    \/ \E r \in Requests : VerifyOtpInsertUser(r)
    \/ \E r \in Requests : VerifyOtpFetchUser(r)
    \/ \E r \in Requests : InitData(r)

SpecAuth == InitService /\ [][NextAuth]_vars

\* the quote routes and init-data
NextData ==
    \/ \E r \in Requests : InitData(r)
    \/ \E r \in Requests : CreateQuoteInsert(r)
    \/ \E r \in Requests : CreateQuoteFetch(r)
    \/ \E r \in Requests : GetRandomQuote(r)
    \/ \E r \in Requests : GetDailyQuote(r)

SpecData == InitService /\ [][NextData]_vars

(***************************************************************************)
(* Properties.                                                             *)
(***************************************************************************)

Range(f) == {f[x] : x \in DOMAIN f}

\* the conversion's chapters loop has handled chapters_data[1..ChaptersHandled]
ChaptersHandled ==
    IF pc = "assemble" THEN i - 1
    ELSE IF pc \in {"sort", "done"} THEN Len(chapters_data)
    ELSE 0

\* the parsed translations of chapter cid
TranslationsOf(cid) ==
    {k \in 1..Len(translations_data) : translations_data[k].chapter_id = cid}

HasEnglish(chapter) ==
    \E k \in TranslationsOf(chapter.id) : translations_data[k].language = English

\* the handled chapters that have an English translation, in input order
EnglishChapters ==
    SelectSeq(SubSeq(chapters_data, 1, ChaptersHandled), HasEnglish)

CountWithNumber(chapters, n) ==
    Cardinality({k \in 1..Len(chapters) : chapters[k].number = n})

\* C1: a chapter is emitted if and only if its translations include
\* 'english': before the sort the output holds, in input order, one record
\* for each handled chapter that has an English translation and none for the
\* others; the sort keeps their number
C1_EnglishGate ==
    pc \in {"assemble", "sort", "done"} =>
        /\ Len(mongodb_chapters) = Len(EnglishChapters)
        /\ pc # "done" =>
              \A k \in 1..Len(mongodb_chapters) :
                  mongodb_chapters[k].number = EnglishChapters[k].chapter_number
        /\ pc = "done" =>
              \A k \in 1..Len(EnglishChapters) :
                  LET n == EnglishChapters[k].chapter_number
                  IN  CountWithNumber(mongodb_chapters, n) =
                      Cardinality({j \in 1..Len(EnglishChapters) :
                                      EnglishChapters[j].chapter_number = n})

\* a finished run with a chapter that has an English translation, one that
\* has only other translations and one that has none
C1_Witness ==
    /\ pc = "done"
    /\ \E c \in Range(chapters_data) : HasEnglish(c)
    /\ \E c \in Range(chapters_data) :
          ~HasEnglish(c) /\ TranslationsOf(c.id) # {}
    /\ \E c \in Range(chapters_data) : TranslationsOf(c.id) = {}
    /\ Len(mongodb_chapters) = Len(chapters_data) - 2

\* the fields of the rows the translations loop appends, by line number
AcceptedLines ==
    {k \in 1..Len(translation_lines) :
        LET parts == Split(translation_lines[k], TAB)
        IN  /\ Strip(translation_lines[k]) # <<>>
            /\ Len(parts) >= 7
            /\ IsInt(parts[1])
            /\ IsInt(parts[2])}

\* the fields of the last accepted row of chapter cid in language lang
LastRowOf(cid, lang) ==
    LET mine == {k \in AcceptedLines :
                    LET parts == Split(translation_lines[k], TAB)
                    IN  IntVal(parts[2]) = cid /\ parts[3] = lang}
    IN  Split(translation_lines[Max(mine)], TAB)

SummaryMissing(parts) == parts[6] = <<>> \/ parts[6] = NullSentinel

\* C2: where the summary field of a translation row is the null sentinel or
\* empty, the assembled summary of that language is the assembled title of
\* that language, the normalized title field; otherwise it is the normalized
\* summary field
C2_SummaryFallback ==
    pc \in {"assemble", "sort"} =>
        \A k \in 1..Len(mongodb_chapters) :
            LET doc == mongodb_chapters[k]
                cid == EnglishChapters[k].id
            IN  \A lang \in DOMAIN doc.summary :
                    LET parts == LastRowOf(cid, lang)
                    IN  IF SummaryMissing(parts)
                        THEN /\ doc.summary[lang] = doc.title[lang]
                             /\ doc.summary[lang] = clean_text(parts[4])
                        ELSE doc.summary[lang] = clean_text(parts[6])

\* assembled chapters with a null-sentinel summary (whose title the
\* normalizer changes), an empty summary and a summary of its own
C2_Witness ==
    /\ pc = "sort"
    /\ Len(mongodb_chapters) = Len(EnglishChapters)
    /\ \E k \in 1..Len(mongodb_chapters) :
          \E lang \in DOMAIN mongodb_chapters[k].summary :
              LET parts == LastRowOf(EnglishChapters[k].id, lang)
              IN  /\ parts[6] = NullSentinel
                  /\ mongodb_chapters[k].summary[lang] # parts[4]
    /\ \E k \in 1..Len(mongodb_chapters) :
          \E lang \in DOMAIN mongodb_chapters[k].summary :
              LastRowOf(EnglishChapters[k].id, lang)[6] = <<>>
    /\ \E k \in 1..Len(mongodb_chapters) :
          \E lang \in DOMAIN mongodb_chapters[k].summary :
              LET parts == LastRowOf(EnglishChapters[k].id, lang)
              IN  /\ ~SummaryMissing(parts)
                  /\ mongodb_chapters[k].summary[lang] # parts[6]
                  /\ mongodb_chapters[k].summary[lang] # mongodb_chapters[k].title[lang]

\* C6: clean_text is idempotent: a text that clean_text returned is returned
\* unchanged by clean_text
C6_CleanTextIdempotent ==
    calls >= 1 => clean_text(text) = text

\* clean_text applied twice to a text it changes and in which it leaves a
\* paragraph break
C6_Witness ==
    /\ calls = 2
    /\ text # raw
    /\ NL \in Range(text)
    /\ SP \in Range(text)

\* the newline at k starts a run of newlines
RunStart(s, k) == s[k] = NL /\ (k = 1 \/ s[k - 1] # NL)

\* C7: in a text that clean_text returned every newline belongs to a run of
\* exactly two newlines: no run of three or more, no lone newline
C7_ParagraphBreaksOnly ==
    calls >= 1 =>
        \A k \in 1..Len(text) :
            RunStart(text, k) => RunLen(SubSeq(text, k, Len(text)), NL) = 2

\* clean_text applied to a text with a lone newline and a run of three
C7_Witness ==
    /\ calls = 1
    /\ \E k \in 1..Len(raw) : RunStart(raw, k) /\ RunLen(SubSeq(raw, k, Len(raw)), NL) = 1
    /\ \E k \in 1..Len(raw) : RunStart(raw, k) /\ RunLen(SubSeq(raw, k, Len(raw)), NL) >= 3
    /\ NL \in Range(text)

\* the grouping loop has handled translations_data[1..TranslationsGrouped]
TranslationsGrouped ==
    IF pc = "group" THEN i - 1
    ELSE IF pc \in {"assemble", "sort", "done"} THEN Len(translations_data)
    ELSE 0

\* the handled translations of chapter cid in language lang
RowsOfKey(cid, lang) ==
    {k \in 1..TranslationsGrouped :
        /\ translations_data[k].chapter_id = cid
        /\ translations_data[k].language = lang}

\* C10: the grouping is last-write-wins per (chapter id, language): every
\* handled translation has its key in the group, and the entry of a key is
\* the last handled translation with that key
C10_LastWriteWins ==
    pc \in {"group", "assemble", "sort", "done"} =>
        /\ \A k \in 1..TranslationsGrouped :
              /\ translations_data[k].chapter_id \in DOMAIN translations_by_chapter
              /\ translations_data[k].language \in
                    DOMAIN translations_by_chapter[translations_data[k].chapter_id]
        /\ \A cid \in DOMAIN translations_by_chapter :
              \A lang \in DOMAIN translations_by_chapter[cid] :
                  /\ RowsOfKey(cid, lang) # {}
                  /\ translations_by_chapter[cid][lang] =
                        translations_data[Max(RowsOfKey(cid, lang))]

\* a finished grouping of two different rows with one key and a row with
\* another key
C10_Witness ==
    /\ pc = "assemble"
    /\ \E j, k \in 1..Len(translations_data) :
          /\ j < k
          /\ translations_data[j].chapter_id = translations_data[k].chapter_id
          /\ translations_data[j].language = translations_data[k].language
          /\ translations_data[j] # translations_data[k]
    /\ \E cid \in DOMAIN translations_by_chapter :
          Cardinality(DOMAIN translations_by_chapter[cid]) >= 2

MissingSection == "Could not find chapters or translations data"

\* C3: no failure of a single row ends the run: the only exception that
\* the parse of an export raises is the one for a missing row set
C3_RowFailuresNeverAbort ==
    pc = "raised" => error = MissingSection

\* the translations loop has handled translation_lines[1..LinesHandled]
LinesHandled ==
    IF pc = "parse_translations" THEN i - 1
    ELSE IF pc \in {"group", "assemble", "sort", "done"}
         THEN Len(translation_lines)
    ELSE 0

\* the k-th smallest element of a set of numbers
RECURSIVE Nth(_, _)
Nth(S, k) == IF k = 1 THEN Min(S) ELSE Nth(S \ {Min(S)}, k - 1)

ShortLine(line) ==
    Strip(line) # <<>> /\ Len(Split(line, TAB)) < 7

\* the chapters of which an accepted row is an English translation
ChaptersWithEnglishRow ==
    {k \in 1..Len(chapters_data) :
        \E j \in AcceptedLines :
            LET parts == Split(translation_lines[j], TAB)
            IN  IntVal(parts[2]) = chapters_data[k].id /\ parts[3] = English}

\* C4: a translation row with fewer than 7 fields is left out and takes no
\* other row with it: the parsed translations are, in order, the handled
\* rows that have 7 fields or more and integer ids, with the fields of
\* those rows; the translations loop raises nothing, and every chapter with
\* such an English row is assembled
C4_ShortRowSkippedAlone ==
    /\ pc \in {"parse_translations", "group", "assemble", "sort", "done"} =>
          LET done == {k \in AcceptedLines : k <= LinesHandled}
          IN  /\ Len(translations_data) = Cardinality(done)
              /\ \A n \in 1..Len(translations_data) :
                    LET parts == Split(translation_lines[Nth(done, n)], TAB)
                        row   == translations_data[n]
                    IN  /\ ~ShortLine(translation_lines[Nth(done, n)])
                        /\ row.id = IntVal(parts[1])
                        /\ row.chapter_id = IntVal(parts[2])
                        /\ row.language = parts[3]
                        /\ row.title = parts[4]
                        /\ row.content = parts[5]
    /\ pc = "raised" => translations_data = <<>> /\ warnings = <<>>
    /\ pc = "done" =>
          Len(mongodb_chapters) = Cardinality(ChaptersWithEnglishRow)

\* a finished run over a short row between two rows that are parsed, the
\* chapter of which is assembled
C4_Witness ==
    /\ pc = "done"
    /\ \E j, k, l \in 1..Len(translation_lines) :
          /\ j < k /\ k < l
          /\ j \in AcceptedLines
          /\ ShortLine(translation_lines[k])
          /\ l \in AcceptedLines
    /\ Len(translations_data) = 2
    /\ Len(mongodb_chapters) >= 1

\* C5: every translation row that is skipped as malformed, for too few
\* fields or for an id that is no integer, has its 1-based line number in a
\* warning
C5_SkippedRowsAreWarned ==
    \A k \in 1..LinesHandled :
        (Strip(translation_lines[k]) # <<>> /\ k \notin AcceptedLines)
            => k \in Range(warnings)

\* out is inp sorted ascending by number, elements of equal number in the
\* order they have in inp
StableSortOf(out, inp) ==
    /\ Len(out) = Len(inp)
    /\ \A a, b \in 1..Len(out) : a < b => out[a].number <= out[b].number
    /\ \E p \in [1..Len(out) -> 1..Len(inp)] :
          /\ \A a, b \in 1..Len(out) : a # b => p[a] # p[b]
          /\ \A a \in 1..Len(out) : out[a] = inp[p[a]]
          /\ \A a, b \in 1..Len(out) :
                (a < b /\ out[a].number = out[b].number) => p[a] < p[b]

\* C8: the sort leaves the assembled chapters ascending by number, whatever
\* the order of the chapters in the input, and chapters of equal number in
\* their input order
C8_StableSortByNumber ==
    [][pc = "sort" => StableSortOf(mongodb_chapters', mongodb_chapters)]_vars

\* a sorted output in which a chapter was moved before an earlier one and
\* two chapters of equal number stand in input order
C8_Witness ==
    /\ pc = "done"
    /\ \E a, b \in 1..Len(mongodb_chapters) :
          /\ a < b
          /\ mongodb_chapters[a].created_at > mongodb_chapters[b].created_at
    /\ \E a, b \in 1..Len(mongodb_chapters) :
          /\ a < b
          /\ mongodb_chapters[a].number = mongodb_chapters[b].number
          /\ mongodb_chapters[a].created_at < mongodb_chapters[b].created_at

Distinct(numbers) ==
    \A a, b \in 1..Len(numbers) : a # b => numbers[a] # numbers[b]

OutputNumbers == [k \in 1..Len(mongodb_chapters) |-> mongodb_chapters[k].number]

\* C9 as stated: no two assembled chapters share a number
C9_NumbersUnique ==
    pc = "done" => Distinct(OutputNumbers)

\* C9 as amended: the numbers of the assembled chapters are pairwise distinct
\* if and only if the sequence numbers of the chapters that have an English
\* translation are
C9_NumbersUniqueIffSourceUnique ==
    pc = "done" =>
        (Distinct(OutputNumbers) <=>
         Distinct([k \in 1..Len(EnglishChapters) |->
                      EnglishChapters[k].chapter_number]))

\* a finished run over two chapters with distinct ids, English translations
\* and one sequence number
C9_Witness ==
    /\ pc = "done"
    /\ \E a, b \in 1..Len(EnglishChapters) :
          /\ EnglishChapters[a].id # EnglishChapters[b].id
          /\ EnglishChapters[a].chapter_number = EnglishChapters[b].chapter_number
    /\ ~Distinct(OutputNumbers)

\* the language codes of the parsed translations of chapter cid
LanguagesOf(cid) ==
    {translations_data[k].language : k \in TranslationsOf(cid)}

\* C11: in every assembled chapter the title, content and summary maps have
\* the same set of language keys, and that set is the set of language codes
\* of the chapter's translations, unchanged
C11_SameLanguageKeys ==
    pc \in {"assemble", "sort"} =>
        \A k \in 1..Len(mongodb_chapters) :
            LET doc == mongodb_chapters[k]
            IN  /\ DOMAIN doc.title = DOMAIN doc.content
                /\ DOMAIN doc.title = DOMAIN doc.summary
                /\ DOMAIN doc.title = LanguagesOf(EnglishChapters[k].id)

\* an assembled chapter with translations in two languages, and one with
\* English alone
C11_Witness ==
    /\ pc = "sort"
    /\ \E k \in 1..Len(mongodb_chapters) :
          /\ DOMAIN mongodb_chapters[k].title = {English, <<"hindi">>}
          /\ LanguagesOf(EnglishChapters[k].id) = {English, <<"hindi">>}
    /\ \E k \in 1..Len(mongodb_chapters) :
          DOMAIN mongodb_chapters[k].summary = {English}

\* s holds a run of three or more newlines
HasLongRun(s) ==
    \E k \in 1..Len(s) : RunStart(s, k) /\ RunLen(SubSeq(s, k, Len(s)), NL) >= 3

\* C14 as stated: for some input with a run of three or more newlines (after
\* the escaped newlines are replaced), replacing the single newlines before
\* collapsing the runs gives a result other than that of the specified order
C14_OrderMatters ==
    \E t \in SeqsUpTo(TextAlphabet, MaxTextLen) :
        /\ HasLongRun(ReplaceEscapedNewlines(t))
        /\ clean_text_single_first(t) # clean_text(t)

\* C14 as amended: the order of the two steps does not matter, the text that
\* clean_text returns is the one the other order returns
C14_OrderIrrelevant ==
    calls = 1 => text = clean_text_single_first(raw)

\* clean_text applied to a text with a run of three or more newlines between
\* two letters, a lone newline and a paragraph break in the result
C14_Witness ==
    /\ calls = 1
    /\ HasLongRun(ReplaceEscapedNewlines(raw))
    /\ \E k \in 1..Len(raw) :
          RunStart(raw, k) /\ RunLen(SubSeq(raw, k, Len(raw)), NL) = 1
    /\ \E k \in 2..Len(text) - 2 :
          /\ text[k - 1] = "a"
          /\ text[k] = NL
          /\ text[k + 1] = NL
          /\ text[k + 2] = "a"

\* no line of the export is the marker
MarkerAbsent(marker) == \A k \in 1..Len(file_content) : file_content[k] # marker

\* C15: when the export lacks the chapters marker, the translations marker
\* or both, the parse ends with the error for a missing row set and no
\* chapter and no translation has been parsed, whatever the other row set
\* holds
C15_MissingMarkerIsFatal ==
    (pc # "search" /\ (MarkerAbsent(ChaptersMarker) \/ MarkerAbsent(TranslationsMarker)))
        => /\ pc = "raised"
           /\ error = MissingSection
           /\ chapters_data = <<>>
           /\ translations_data = <<>>
           /\ mongodb_chapters = <<>>

\* a run that ended on an export with a well-formed chapters row set and no
\* translations marker
C15_Witness ==
    /\ pc = "raised"
    /\ error = MissingSection
    /\ ~MarkerAbsent(ChaptersMarker)
    /\ MarkerAbsent(TranslationsMarker)
    /\ SearchCopy(file_content, ChaptersMarker).matched
    /\ \A k \in 1..Len(BlockLines(SearchCopy(file_content, ChaptersMarker))) :
          ChapterLineResult(BlockLines(SearchCopy(file_content, ChaptersMarker))[k]).kind
              = "append"

\* the responses of an init-data run that failed
InitDataFailures == {"Failed to convert chapter data", "Internal Server Error"}

Answered(r, kind) == reqs[r].kind = kind /\ reqs[r].pc = "done"

\* the store holds what one successful init-data run leaves in an empty
\* store: each converted chapter once and each sample quote once
SeededOnce ==
    /\ Cardinality(db_chapters) = Len(RealChapters)
    /\ \A k \in 1..Len(RealChapters) :
          Cardinality({c \in db_chapters : c.number = RealChapters[k].number}) = 1
    /\ Cardinality(db_spiritual_quotes) = Len(SampleQuotes)
    /\ \A k \in 1..Len(SampleQuotes) :
          Cardinality({q \in db_spiritual_quotes : q.content = SampleQuotes[k]}) = 1

\* C12: when an init-data run has failed (the conversion, the insert of the
\* chapters or the insert of the quotes) and a second init-data run, begun
\* after the failure, has been answered without failing, and no other
\* request was made, the store holds each converted chapter and each sample
\* quote exactly once
C12_RetryIsSafe ==
    \A r1, r2 \in Requests :
        ( /\ Answered(r1, "init_data")
          /\ reqs[r1].response \in InitDataFailures
          /\ Answered(r2, "init_data")
          /\ reqs[r2].response \notin InitDataFailures
          /\ r1 \in reqs[r2].after
          /\ \A q \in Requests \ {r1, r2} : reqs[q].pc = "idle" )
        => SeededOnce

\* C13: no step of the service removes or changes a stored quote
C13_QuotesAppendOnly ==
    [][\A q \in db_spiritual_quotes : q \in db_spiritual_quotes']_vars

\* C16: no OTP document lets two verify-otp requests obtain an access token
C16_OtpSingleUse ==
    \A r1, r2 \in Requests :
        ( /\ Answered(r1, "verify_otp")
          /\ reqs[r1].response = "access_token"
          /\ Answered(r2, "verify_otp")
          /\ reqs[r2].response = "access_token"
          /\ reqs[r1].otp_doc = reqs[r2].otp_doc )
        => r1 = r2

\* the second half of C16: a verify-otp request that arrives when every OTP
\* document of its email and code is used is answered
\* 'Invalid or expired OTP'
C16_UsedOtpIsRefused ==
    [][\A r \in Requests :
          ( /\ Arrives(r)
            /\ reqs'[r].kind = "verify_otp"
            /\ \A d \in db_otps :
                  (d.email = reqs'[r].email /\ d.otp = reqs'[r].otp) => d.used )
          => reqs'[r].response = "Invalid or expired OTP"]_vars

\* C17: when every send-otp request has been answered, no email has more
\* than one OTP document
C17_OneOtpPerEmail ==
    (\A r \in Requests : reqs[r].kind = "send_otp" => reqs[r].pc = "done")
        => \A email \in Emails :
              Cardinality({d \in db_otps : d.email = email}) <= 1

\* C18: when no request is in progress, no two user documents have the same
\* email
C18_OneUserPerEmail ==
    (\A r \in Requests : reqs[r].pc \in {"idle", "done"})
        => \A u1, u2 \in db_users : u1.email = u2.email => u1 = u2

====
